---- MODULE Spec2Model ----
(***************************************************************************)
(* Model of the two-party escrow program in                                *)
(* src/sol_stables_transaction/src/main.rs.                                *)
(*                                                                         *)
(* One step of the model is one call of process_instruction (decode,       *)
(* validate, route to a handler) or one advance of the ledger clock.       *)
(* An instruction that returns Err leaves no effect behind: the runtime    *)
(* that calls the entrypoint discards the account changes of a failed      *)
(* instruction.  The token program reached through invoke is external: a   *)
(* transfer fails when the source holds less than the amount, and may      *)
(* fail for reasons the program does not see (authority, signature).       *)
(***************************************************************************)
EXTENDS Integers, Sequences, FiniteSets, TLC

\* ------------------------------------------------------------------ bounds
\* last value of the ledger clock the model explores
MaxTime == 2
\* largest number of deposits' worth of funds an escrow holding starts with
MaxFunding == 1

\* ------------------------------------------------- the record's fixed data
Seller == "S"
Buyer == "B"
Stranger == "X"
EscrowNative == "EN"
EscrowStable == "ES"

solana_amount == 1
price == 2
deadline == 1

Stablecoin == {"USDT", "USDC"}

\* every account the host can hand to the program
Pubkeys == {Seller, Buyer, Stranger, EscrowNative, EscrowStable}

\* the positional account lists the model submits: [0] and [1] are main
\* accounts, [2] and [3] are holding accounts
AccountLists ==
  {<<a, b, h[1], h[2]>> : a \in {Seller, Buyer, Stranger}, b \in {Seller, Buyer},
                          h \in {<<EscrowNative, EscrowStable>>,
                                 <<EscrowStable, EscrowNative>>}}

\* handle_exchange names accounts[2] seller_solana_account and accounts[3]
\* buyer_stablecoin_account, with the seller and the buyer as authorities: an
\* Exchange may also be handed the parties' own accounts as the sources
ExchangeAccountLists ==
  AccountLists \cup {<<Seller, Buyer, Seller, Buyer>>}

\* a Deposit reads accounts[0] only: the lists that differ there
DepositAccountLists ==
  {l \in AccountLists : l[2] = Buyer /\ l[3] = EscrowNative}

\* the token program's verdicts on the two transfers of one instruction; the
\* second verdict is not asked for when the first transfer is refused
Verdicts == {<<TRUE, TRUE>>, <<TRUE, FALSE>>, <<FALSE, TRUE>>}

\* deposit amounts the model submits
Amounts == {solana_amount, price}

\* instruction byte strings the model submits
InstructionData == {<<>>, <<0>>, <<1>>, <<2>>, <<3>>, <<255>>, <<0, 1>>}

VARIABLES
  contract,   \* the ExchangeContract record
  balances,   \* balances[asset][account], kept by the token program
  now,        \* the ledger clock
  last,       \* the instruction submitted by the latest step
  result,     \* the ProgramResult of the latest step
  invoked,    \* the token transfers the latest step invoked, in order
  refunded    \* history: some Refund has returned Ok

vars == <<contract, balances, now, last, result, invoked, refunded>>

\* --------------------------------------------------------- ProgramResult
Ok == [err |-> "Ok", at |-> "", msg |-> ""]
Err(e, f, m) == [err |-> e, at |-> f, msg |-> m]
IsOk(r) == r.err = "Ok"

\* ------------------------------------------------------- token transfers
\* invoke(token_instruction::transfer(.., source, destination, .., amount)):
\* all-or-nothing; accepted is the token program's verdict on everything
\* but the funds
Call(asset, source, destination, amount, done) ==
  [asset |-> asset, source |-> source, destination |-> destination,
   amount |-> amount, done |-> done]

invoke(bal, asset, source, destination, amount, accepted, f) ==
  IF accepted /\ bal[asset][source] >= amount
  THEN [res |-> Ok,
        bal |-> [bal EXCEPT ![asset] =
                   [[@ EXCEPT ![source] = @ - amount]
                       EXCEPT ![destination] = @ + amount]],
        call |-> Call(asset, source, destination, amount, TRUE)]
  ELSE [res |-> Err("TransferFailure", f, ""), bal |-> bal,
        call |-> Call(asset, source, destination, amount, FALSE)]

\* ------------------------------------------------------------- handlers
\* a plausible slip: the deposited amount is written into the record
handle_deposit_stores_amount(c, depositor_pubkey, amount, is_solana) ==
  LET expected_pubkey == IF is_solana THEN c.seller_pubkey ELSE c.buyer_pubkey
      expected_amount == IF is_solana THEN c.solana_amount ELSE c.price
  IN IF depositor_pubkey # expected_pubkey
     THEN [res |-> Err("InvalidAccountData", "handle_deposit",
                       "Deposit rejected: Incorrect account"),
           contract |-> c]
     ELSE IF amount # expected_amount
     THEN [res |-> Err("InvalidAccountData", "handle_deposit",
                       "Deposit rejected: Incorrect amount"),
           contract |-> c]
     ELSE IF is_solana
     THEN [res |-> Ok, contract |-> [c EXCEPT !.solana_deposited = TRUE,
                                              !.price = amount]]
     ELSE [res |-> Ok, contract |-> [c EXCEPT !.stablecoin_deposited = TRUE,
                                              !.solana_amount = amount]]

handle_deposit(c, depositor_pubkey, amount, is_solana) ==
  LET expected_pubkey == IF is_solana THEN c.seller_pubkey ELSE c.buyer_pubkey
      expected_amount == IF is_solana THEN c.solana_amount ELSE c.price
  IN IF depositor_pubkey # expected_pubkey
     THEN [res |-> Err("InvalidAccountData", "handle_deposit",
                       "Deposit rejected: Incorrect account"),
           contract |-> c]
     ELSE IF amount # expected_amount
     THEN [res |-> Err("InvalidAccountData", "handle_deposit",
                       "Deposit rejected: Incorrect amount"),
           contract |-> c]
     ELSE IF is_solana
     THEN [res |-> Ok, contract |-> [c EXCEPT !.solana_deposited = TRUE]]
     ELSE [res |-> Ok, contract |-> [c EXCEPT !.stablecoin_deposited = TRUE]]

\* a plausible slip: the deposited flags are cleared when the exchange pays out
handle_exchange_clears_deposits(c, bal, accounts, accepted1, accepted2) ==
  IF ~c.solana_deposited \/ ~c.stablecoin_deposited
  THEN [res |-> Err("InvalidAccountData", "handle_exchange",
                    "Exchange cannot be executed: Both parties have not deposited"),
        contract |-> c, bal |-> bal, calls |-> <<>>]
  ELSE IF accounts[1] # c.seller_pubkey \/ accounts[2] # c.buyer_pubkey
  THEN [res |-> Err("InvalidAccountData", "handle_exchange",
                    "Exchange failed: Invalid accounts"),
        contract |-> c, bal |-> bal, calls |-> <<>>]
  ELSE
    LET t1 == invoke(bal, "native", accounts[3], accounts[2], c.solana_amount,
                     accepted1, "handle_exchange/solana_transfer")
    IN IF ~IsOk(t1.res)
       THEN [res |-> t1.res, contract |-> c, bal |-> t1.bal,
             calls |-> <<t1.call>>]
       ELSE
         LET t2 == invoke(t1.bal, "stable", accounts[4], accounts[1], c.price,
                          accepted2, "handle_exchange/stablecoin_transfer")
         IN IF ~IsOk(t2.res)
            THEN [res |-> t2.res, contract |-> c, bal |-> t2.bal,
                  calls |-> <<t1.call, t2.call>>]
            ELSE [res |-> Ok,
                  contract |-> [c EXCEPT !.exchange_completed = TRUE,
                                         !.solana_deposited = FALSE,
                                         !.stablecoin_deposited = FALSE],
                  bal |-> t2.bal, calls |-> <<t1.call, t2.call>>]

\* a plausible slip: the account check written with && for ||
handle_exchange_checks_either(c, bal, accounts, accepted1, accepted2) ==
  IF ~c.solana_deposited \/ ~c.stablecoin_deposited
  THEN [res |-> Err("InvalidAccountData", "handle_exchange",
                    "Exchange cannot be executed: Both parties have not deposited"),
        contract |-> c, bal |-> bal, calls |-> <<>>]
  ELSE IF accounts[1] # c.seller_pubkey /\ accounts[2] # c.buyer_pubkey
  THEN [res |-> Err("InvalidAccountData", "handle_exchange",
                    "Exchange failed: Invalid accounts"),
        contract |-> c, bal |-> bal, calls |-> <<>>]
  ELSE
    LET t1 == invoke(bal, "native", accounts[3], accounts[2], c.solana_amount,
                     accepted1, "handle_exchange/solana_transfer")
    IN IF ~IsOk(t1.res)
       THEN [res |-> t1.res, contract |-> c, bal |-> t1.bal,
             calls |-> <<t1.call>>]
       ELSE
         LET t2 == invoke(t1.bal, "stable", accounts[4], accounts[1], c.price,
                          accepted2, "handle_exchange/stablecoin_transfer")
         IN IF ~IsOk(t2.res)
            THEN [res |-> t2.res, contract |-> c, bal |-> t2.bal,
                  calls |-> <<t1.call, t2.call>>]
            ELSE [res |-> Ok,
                  contract |-> [c EXCEPT !.exchange_completed = TRUE],
                  bal |-> t2.bal, calls |-> <<t1.call, t2.call>>]

\* a plausible slip: the second invoke's result is dropped instead of
\* propagated with ?
handle_exchange_ignores_second(c, bal, accounts, accepted1, accepted2) ==
  IF ~c.solana_deposited \/ ~c.stablecoin_deposited
  THEN [res |-> Err("InvalidAccountData", "handle_exchange",
                    "Exchange cannot be executed: Both parties have not deposited"),
        contract |-> c, bal |-> bal, calls |-> <<>>]
  ELSE IF accounts[1] # c.seller_pubkey \/ accounts[2] # c.buyer_pubkey
  THEN [res |-> Err("InvalidAccountData", "handle_exchange",
                    "Exchange failed: Invalid accounts"),
        contract |-> c, bal |-> bal, calls |-> <<>>]
  ELSE
    LET t1 == invoke(bal, "native", accounts[3], accounts[2], c.solana_amount,
                     accepted1, "handle_exchange/solana_transfer")
    IN IF ~IsOk(t1.res)
       THEN [res |-> t1.res, contract |-> c, bal |-> t1.bal,
             calls |-> <<t1.call>>]
       ELSE
         LET t2 == invoke(t1.bal, "stable", accounts[4], accounts[1], c.price,
                          accepted2, "handle_exchange/stablecoin_transfer")
         IN [res |-> Ok,
             contract |-> [c EXCEPT !.exchange_completed = TRUE],
             bal |-> t2.bal, calls |-> <<t1.call, t2.call>>]

handle_exchange(c, bal, accounts, accepted1, accepted2) ==
  IF ~c.solana_deposited \/ ~c.stablecoin_deposited
  THEN [res |-> Err("InvalidAccountData", "handle_exchange",
                    "Exchange cannot be executed: Both parties have not deposited"),
        contract |-> c, bal |-> bal, calls |-> <<>>]
  ELSE IF accounts[1] # c.seller_pubkey \/ accounts[2] # c.buyer_pubkey
  THEN [res |-> Err("InvalidAccountData", "handle_exchange",
                    "Exchange failed: Invalid accounts"),
        contract |-> c, bal |-> bal, calls |-> <<>>]
  ELSE
    \* seller_solana_account = accounts[2] -> buyer_account = accounts[1]
    LET t1 == invoke(bal, "native", accounts[3], accounts[2], c.solana_amount,
                     accepted1, "handle_exchange/solana_transfer")
    IN IF ~IsOk(t1.res)
       THEN [res |-> t1.res, contract |-> c, bal |-> t1.bal,
             calls |-> <<t1.call>>]
       ELSE
         \* buyer_stablecoin_account = accounts[3] -> seller_account = accounts[0]
         LET t2 == invoke(t1.bal, "stable", accounts[4], accounts[1], c.price,
                          accepted2, "handle_exchange/stablecoin_transfer")
         IN IF ~IsOk(t2.res)
            THEN [res |-> t2.res, contract |-> c, bal |-> t2.bal,
                  calls |-> <<t1.call, t2.call>>]
            ELSE [res |-> Ok,
                  contract |-> [c EXCEPT !.exchange_completed = TRUE],
                  bal |-> t2.bal, calls |-> <<t1.call, t2.call>>]

handle_refund(c, bal, accounts, current_time, accepted1, accepted2) ==
  IF current_time <= c.deadline \/ c.exchange_completed
  THEN [res |-> Err("InvalidAccountData", "handle_refund",
                    "Refund conditions not met"),
        bal |-> bal, calls |-> <<>>]
  ELSE
    \* contract_solana_account = accounts[2] -> seller_main_account = accounts[0]
    LET t1 == invoke(bal, "native", accounts[3], accounts[1], c.solana_amount,
                     accepted1, "handle_refund/solana_refund")
    IN IF ~IsOk(t1.res)
       THEN [res |-> t1.res, bal |-> t1.bal, calls |-> <<t1.call>>]
       ELSE
         \* contract_stablecoin_account = accounts[3] -> buyer_main_account = accounts[1]
         LET t2 == invoke(t1.bal, "stable", accounts[4], accounts[2], c.price,
                          accepted2, "handle_refund/stablecoin_refund")
         IN IF ~IsOk(t2.res)
            THEN [res |-> t2.res, bal |-> t2.bal,
                  calls |-> <<t1.call, t2.call>>]
            ELSE [res |-> Ok, bal |-> t2.bal,
                  calls |-> <<t1.call, t2.call>>]

\* --------------------------------------------------------------- decoder
\* a plausible slip: the catch-all arm returns the last instruction kind
parse_instruction_data_default_refund(data) ==
  IF Len(data) = 0
  THEN [res |-> Err("InvalidInstructionData", "parse_instruction_data", ""),
        type |-> "None"]
  ELSE IF data[1] = 0 THEN [res |-> Ok, type |-> "Deposit"]
  ELSE IF data[1] = 1 THEN [res |-> Ok, type |-> "Exchange"]
  ELSE [res |-> Ok, type |-> "Refund"]

parse_instruction_data(data) ==
  IF Len(data) = 0
  THEN [res |-> Err("InvalidInstructionData", "parse_instruction_data", ""),
        type |-> "None"]
  ELSE IF data[1] = 0 THEN [res |-> Ok, type |-> "Deposit"]
  ELSE IF data[1] = 1 THEN [res |-> Ok, type |-> "Exchange"]
  ELSE IF data[1] = 2 THEN [res |-> Ok, type |-> "Refund"]
  ELSE [res |-> Err("InvalidInstructionData", "parse_instruction_data", ""),
        type |-> "None"]

\* ------------------------------------------------------------- validator
\* a plausible slip: the refund check written with < for <=
validate_transaction_strict_less(accounts, c, instruction_type, current_time) ==
  IF instruction_type = "Deposit"
  THEN IF accounts[1] # c.seller_pubkey /\ accounts[1] # c.buyer_pubkey
       THEN Err("InvalidAccountData", "validate_transaction",
                "Invalid depositor for the deposit transaction")
       ELSE Ok
  ELSE IF instruction_type = "Exchange"
  THEN IF ~c.solana_deposited \/ ~c.stablecoin_deposited
       THEN Err("InvalidAccountData", "validate_transaction",
                "Cannot execute exchange: Deposits not completed")
       ELSE Ok
  ELSE IF current_time < c.deadline \/ c.exchange_completed
       THEN Err("InvalidAccountData", "validate_transaction",
                "Refund conditions not met")
       ELSE Ok

\* a plausible slip: the exchange check written with && for ||
validate_transaction_and(accounts, c, instruction_type, current_time) ==
  IF instruction_type = "Deposit"
  THEN IF accounts[1] # c.seller_pubkey /\ accounts[1] # c.buyer_pubkey
       THEN Err("InvalidAccountData", "validate_transaction",
                "Invalid depositor for the deposit transaction")
       ELSE Ok
  ELSE IF instruction_type = "Exchange"
  THEN IF ~c.solana_deposited /\ ~c.stablecoin_deposited
       THEN Err("InvalidAccountData", "validate_transaction",
                "Cannot execute exchange: Deposits not completed")
       ELSE Ok
  ELSE IF current_time <= c.deadline \/ c.exchange_completed
       THEN Err("InvalidAccountData", "validate_transaction",
                "Refund conditions not met")
       ELSE Ok

validate_transaction(accounts, c, instruction_type, current_time) ==
  IF instruction_type = "Deposit"
  THEN IF accounts[1] # c.seller_pubkey /\ accounts[1] # c.buyer_pubkey
       THEN Err("InvalidAccountData", "validate_transaction",
                "Invalid depositor for the deposit transaction")
       ELSE Ok
  ELSE IF instruction_type = "Exchange"
  THEN IF ~c.solana_deposited \/ ~c.stablecoin_deposited
       THEN Err("InvalidAccountData", "validate_transaction",
                "Cannot execute exchange: Deposits not completed")
       ELSE Ok
  ELSE IF current_time <= c.deadline \/ c.exchange_completed
       THEN Err("InvalidAccountData", "validate_transaction",
                "Refund conditions not met")
       ELSE Ok

\* ------------------------------------------------------------ dispatcher
\* the outcome of one call: the result and the record and balances the
\* instruction leaves behind (those before the call when it returns Err)
process_instruction(data, accounts, amount, is_solana, accepted1, accepted2) ==
  LET parsed == parse_instruction_data(data)
      keep(r, calls) == [res |-> r, contract |-> contract, bal |-> balances,
                         calls |-> calls]
  IN IF ~IsOk(parsed.res) THEN keep(parsed.res, <<>>)
     ELSE
       LET v == validate_transaction(accounts, contract, parsed.type, now)
       IN IF ~IsOk(v) THEN keep(v, <<>>)
          ELSE
            LET h == IF parsed.type = "Deposit"
                     THEN LET d == handle_deposit(contract, accounts[1], amount,
                                                  is_solana)
                          IN [res |-> d.res, contract |-> d.contract,
                              bal |-> balances, calls |-> <<>>]
                     ELSE IF parsed.type = "Exchange"
                     THEN handle_exchange(contract, balances, accounts,
                                          accepted1, accepted2)
                     ELSE LET r == handle_refund(contract, balances, accounts,
                                                 now, accepted1, accepted2)
                          IN [res |-> r.res, contract |-> contract,
                              bal |-> r.bal, calls |-> r.calls]
            IN IF IsOk(h.res) THEN h ELSE keep(h.res, h.calls)

\* what the model remembers of the latest instruction: its kind and bytes,
\* for a Deposit the depositor, the amount and the asset, and for an Exchange
\* the two main accounts it was handed
Instruction(type, data, depositor, parties, amount, is_solana) ==
  [type |-> type, data |-> data, depositor |-> depositor,
   parties |-> parties, amount |-> amount, is_solana |-> is_solana]

NoAccounts == <<Seller, Buyer, EscrowNative, EscrowStable>>

Submit(data, accounts, amount, is_solana, accepted1, accepted2) ==
  LET out == process_instruction(data, accounts, amount, is_solana,
                                 accepted1, accepted2)
      type == parse_instruction_data(data).type
  IN /\ contract' = out.contract
     /\ balances' = out.bal
     /\ result' = out.res
     /\ invoked' = out.calls
     /\ last' = Instruction(type, data,
                            IF type = "Deposit" THEN accounts[1] ELSE "",
                            IF type = "Exchange"
                            THEN <<accounts[1], accounts[2]>> ELSE <<>>,
                            amount, is_solana)
     /\ refunded' = (refunded \/ (type = "Refund" /\ IsOk(out.res)))
     /\ now' = now

\* ---------------------------------------------------------------- actions
Init ==
  /\ contract = [seller_pubkey |-> Seller, buyer_pubkey |-> Buyer,
                 price |-> price, solana_amount |-> solana_amount,
                 stablecoin_type |-> "USDC", deadline |-> deadline,
                 solana_deposited |-> FALSE,
                 stablecoin_deposited |-> FALSE,
                 exchange_completed |-> FALSE]
  /\ \E n \in 0..MaxFunding, m \in 0..MaxFunding :
       balances =
         [native |-> [a \in Pubkeys |->
                        IF a = EscrowNative THEN n * solana_amount ELSE 0],
          stable |-> [a \in Pubkeys |->
                        IF a = EscrowStable THEN m * price ELSE 0]]
  /\ now = 0
  /\ last = Instruction("None", <<>>, "", <<>>, 0, FALSE)
  /\ result = Ok
  /\ invoked = <<>>
  /\ refunded = FALSE

\* the instructions are told apart by the decoder, as process_instruction
\* does
Decoded(type) ==
  {data \in InstructionData : parse_instruction_data(data).type = type}

Deposit ==
  \E data \in Decoded("Deposit"), accounts \in DepositAccountLists,
     amount \in Amounts, is_solana \in BOOLEAN :
    Submit(data, accounts, amount, is_solana, TRUE, TRUE)

Exchange ==
  \E data \in Decoded("Exchange"), accounts \in ExchangeAccountLists,
     accepted \in Verdicts :
    Submit(data, accounts, 0, FALSE, accepted[1], accepted[2])

Refund ==
  \E data \in Decoded("Refund"), accounts \in AccountLists,
     accepted \in Verdicts :
    Submit(data, accounts, 0, FALSE, accepted[1], accepted[2])

Undecodable ==
  \E data \in Decoded("None") :
    Submit(data, NoAccounts, 0, FALSE, TRUE, TRUE)

Tick ==
  /\ now < MaxTime
  /\ now' = now + 1
  /\ last' = Instruction("Tick", <<>>, "", <<>>, 0, FALSE)
  /\ result' = Ok
  /\ invoked' = <<>>
  /\ UNCHANGED <<contract, balances, refunded>>

Next == Deposit \/ Exchange \/ Refund \/ Undecodable \/ Tick

Spec == Init /\ [][Next]_vars

\* ==================================================================
\* Properties
\* ==================================================================
IsInstruction(i) == i.type \in {"Deposit", "Exchange", "Refund"}

\* the rejection the specification calls PreconditionFailed: the validator's
\* refusal of an Exchange before both deposits, or of a Refund that is early
\* or follows a completed exchange
PreconditionFailed(r) ==
  /\ r.err = "InvalidAccountData"
  /\ r.at = "validate_transaction"
  /\ r.msg \in {"Cannot execute exchange: Deposits not completed",
                "Refund conditions not met"}

RecordAndBalancesUnchanged == contract' = contract /\ balances' = balances

\* C1: in every reachable state, exchange_completed = true implies that both
\* seller_deposited (solana_deposited) and buyer_deposited
\* (stablecoin_deposited) are true.
C1_CompletedImpliesBothDeposited ==
  contract.exchange_completed =>
    contract.solana_deposited /\ contract.stablecoin_deposited

C1_Witness ==
  /\ last.type = "Exchange" /\ IsOk(result)
  /\ contract.exchange_completed

\* C2: no reachable state has one party holding the other's deposited asset
\* while the other party has not received theirs: the buyer holds the native
\* amount only if the seller holds the stablecoin price, and conversely.
C2_NoUnilateralTake ==
  /\ ~(contract.solana_deposited /\ balances.native[Buyer] > 0
        /\ balances.stable[Seller] = 0)
  /\ ~(contract.stablecoin_deposited /\ balances.stable[Seller] > 0
        /\ balances.native[Buyer] = 0)

\* C3: a Deposit by the right party with the right amount for a role whose
\* deposited flag is already true is rejected with AlreadyDeposited and
\* leaves the record unchanged.
C3_DuplicateDepositRejected ==
  [][(/\ last'.type = "Deposit"
      /\ last'.depositor = (IF last'.is_solana THEN contract.seller_pubkey
                                               ELSE contract.buyer_pubkey)
      /\ last'.amount = (IF last'.is_solana THEN contract.solana_amount
                                            ELSE contract.price)
      /\ (IF last'.is_solana THEN contract.solana_deposited
                             ELSE contract.stablecoin_deposited))
     => (result'.err = "AlreadyDeposited" /\ contract' = contract)]_vars

\* C4: an Exchange submitted while solana_deposited or stablecoin_deposited
\* is false fails with the precondition rejection, invokes no transfer and
\* leaves record and balances unchanged; an Exchange that returns Ok was
\* submitted with both flags true.
C4_ExchangeNeedsBothDeposits ==
  [][last'.type = "Exchange" =>
       /\ (~contract.solana_deposited \/ ~contract.stablecoin_deposited)
            => (/\ PreconditionFailed(result')
                /\ invoked' = <<>>
                /\ RecordAndBalancesUnchanged)
       /\ IsOk(result')
            => (contract.solana_deposited /\ contract.stablecoin_deposited)]_vars

C4_Witness ==
  /\ last.type = "Exchange" /\ PreconditionFailed(result)
  /\ contract.solana_deposited /\ ~contract.stablecoin_deposited

\* C5: when the first transfer of an Exchange is done and the second one
\* fails, the instruction returns the transfer's failure, no third transfer
\* is invoked, and record and balances are what they were before the
\* instruction (so exchange_completed is not set by it).
C5_ExchangeSecondLegFailureLeavesNothing ==
  [][(/\ last'.type = "Exchange"
      /\ Len(invoked') >= 2
      /\ invoked'[1].done /\ ~invoked'[2].done)
     => (/\ result'.err = "TransferFailure"
         /\ Len(invoked') = 2
         /\ RecordAndBalancesUnchanged
         /\ (~contract.exchange_completed => ~contract'.exchange_completed))]_vars

C5_Witness ==
  /\ last.type = "Exchange"
  /\ Len(invoked) = 2 /\ invoked[1].done /\ ~invoked[2].done
  /\ result.err = "TransferFailure"
  /\ ~contract.exchange_completed

\* C6: a Refund submitted while current_time <= deadline (equality
\* included) or exchange_completed is true is rejected with the precondition
\* rejection, invokes no transfer and changes neither record nor balances.
C6_RefundRejectedEarlyOrCompleted ==
  [][(/\ last'.type = "Refund"
      /\ (now <= contract.deadline \/ contract.exchange_completed))
     => (/\ PreconditionFailed(result')
         /\ invoked' = <<>>
         /\ RecordAndBalancesUnchanged)]_vars

C6_Witness ==
  /\ last.type = "Refund" /\ PreconditionFailed(result)
  /\ now = contract.deadline /\ ~contract.exchange_completed

C6_WitnessCompleted ==
  /\ last.type = "Refund" /\ PreconditionFailed(result)
  /\ now > contract.deadline /\ contract.exchange_completed

\* C7: a Refund that returns Ok moves the native amount to the seller iff
\* solana_deposited is true and the stablecoin amount to the buyer iff
\* stablecoin_deposited is true.
C7_RefundExactlyTheDeposited ==
  [][(last'.type = "Refund" /\ IsOk(result'))
     => (/\ (balances'.native[Seller]
               = balances.native[Seller] + contract.solana_amount)
              <=> contract.solana_deposited
         /\ (balances'.stable[Buyer]
               = balances.stable[Buyer] + contract.price)
              <=> contract.stablecoin_deposited
         /\ ~contract.solana_deposited
              => balances'.native = balances.native
         /\ ~contract.stablecoin_deposited
              => balances'.stable = balances.stable)]_vars

\* C8: once a Refund has returned Ok, every later Deposit, Exchange or
\* Refund is rejected and changes neither the record nor any balance.
C8_RefundedIsTerminal ==
  [][(refunded /\ IsInstruction(last'))
     => (~IsOk(result') /\ RecordAndBalancesUnchanged)]_vars

\* C9: once exchange_completed is true, every later Deposit, Exchange or
\* Refund is rejected, leaves the record unchanged and repeats no transfer.
C9_ExchangedIsTerminal ==
  [][(contract.exchange_completed /\ IsInstruction(last'))
     => (/\ ~IsOk(result')
         /\ contract' = contract
         /\ \A i \in 1..Len(invoked') : ~invoked'[i].done)]_vars

\* C10: a Refund past the deadline, with exchange_completed false and both
\* deposited flags false, fails with NothingToRefund, invokes no transfer
\* and leaves the record unchanged.
C10_NothingToRefund ==
  [][(/\ last'.type = "Refund"
      /\ now > contract.deadline
      /\ ~contract.exchange_completed
      /\ ~contract.solana_deposited /\ ~contract.stablecoin_deposited)
     => (/\ result'.err = "NothingToRefund"
         /\ invoked' = <<>>
         /\ RecordAndBalancesUnchanged)]_vars

\* C11: an Exchange that returns Ok moves exactly solana_amount of the native
\* asset from the escrow's native holding to the buyer and exactly price of
\* stablecoin from the escrow's stablecoin holding to the seller, changes no
\* other balance, and sets exchange_completed with both transfers done.
C11_ExchangeMovesEscrowToParties ==
  [][(last'.type = "Exchange" /\ IsOk(result'))
     => (/\ balances'.native =
              [balances.native EXCEPT
                 ![EscrowNative] = @ - contract.solana_amount,
                 ![contract.buyer_pubkey] = @ + contract.solana_amount]
         /\ balances'.stable =
              [balances.stable EXCEPT
                 ![EscrowStable] = @ - contract.price,
                 ![contract.seller_pubkey] = @ + contract.price]
         /\ contract'.exchange_completed
         /\ Len(invoked') = 2 /\ invoked'[1].done /\ invoked'[2].done)]_vars

\* the error a Deposit by the wrong party for the asset gets from the code
WrongPartyError(is_solana) ==
  handle_deposit(contract,
                 IF is_solana THEN contract.buyer_pubkey
                              ELSE contract.seller_pubkey,
                 IF is_solana THEN contract.solana_amount ELSE contract.price,
                 is_solana).res.err

\* C12: a Deposit by the right party with an amount different from the
\* recorded one fails, sets no flag, and its error kind is distinct from the
\* error kind of a Deposit by the wrong party.
C12_DepositErrorKindsDistinct ==
  [][(/\ last'.type = "Deposit"
      /\ last'.depositor = (IF last'.is_solana THEN contract.seller_pubkey
                                               ELSE contract.buyer_pubkey)
      /\ last'.amount # (IF last'.is_solana THEN contract.solana_amount
                                            ELSE contract.price))
     => (/\ ~IsOk(result')
         /\ contract' = contract
         /\ result'.err # WrongPartyError(last'.is_solana))]_vars

\* a Refund that the program accepts
RefundAccepted == Refund /\ IsOk(result')

\* the escrow holds exactly what the deposited flags say
EscrowMatchesFlags ==
  /\ balances.native[EscrowNative] =
       (IF contract.solana_deposited THEN contract.solana_amount ELSE 0)
  /\ balances.stable[EscrowStable] =
       (IF contract.stablecoin_deposited THEN contract.price ELSE 0)

\* C13: in a non-terminal state in which a party has deposited (and the
\* escrow holds the deposits), once the current time is strictly past the
\* deadline a Refund instruction is accepted.
C13_RefundAcceptedAfterDeadline ==
  (/\ ~contract.exchange_completed /\ ~refunded
   /\ contract.solana_deposited \/ contract.stablecoin_deposited
   /\ EscrowMatchesFlags
   /\ now > contract.deadline)
  => ENABLED RefundAccepted

\* the fields of the record that are fixed at creation
FixedFields(c) ==
  <<c.seller_pubkey, c.buyer_pubkey, c.price, c.solana_amount,
    c.stablecoin_type, c.deadline>>

\* C14: the identities, price, solana_amount, stablecoin_type and deadline of
\* the record are unchanged by every Deposit, Exchange and Refund, successful
\* or failing.
C14_FixedFieldsUnchanged ==
  [][FixedFields(contract') = FixedFields(contract)]_vars

C14_Witness ==
  /\ last.type = "Deposit" /\ IsOk(result) /\ last.is_solana
  /\ contract.solana_deposited
  /\ FixedFields(contract) =
       <<Seller, Buyer, price, solana_amount, "USDC", deadline>>

\* the instruction kind the leading byte stands for
ExpectedType(data) ==
  IF Len(data) = 0 THEN "None"
  ELSE IF data[1] = 0 THEN "Deposit"
  ELSE IF data[1] = 1 THEN "Exchange"
  ELSE IF data[1] = 2 THEN "Refund"
  ELSE "None"

\* C15: the decoder maps a leading byte 0 to Deposit, 1 to Exchange and 2 to
\* Refund and fails with InvalidInstructionData for empty input and every
\* other leading byte; an undecodable instruction reaches no handler, invokes
\* no transfer and changes neither record nor balances.
C15_DecoderMapsLeadingByte ==
  [][last'.type # "Tick"
     => (/\ last'.type = ExpectedType(last'.data)
         /\ ExpectedType(last'.data) = "None"
              => (/\ result' = Err("InvalidInstructionData",
                                   "parse_instruction_data", "")
                  /\ invoked' = <<>>
                  /\ RecordAndBalancesUnchanged)
         /\ ExpectedType(last'.data) # "None"
              => result'.at # "parse_instruction_data")]_vars

C15_Witness ==
  /\ last.data = <<255>> /\ last.type = "None"
  /\ result.err = "InvalidInstructionData"
  /\ contract.solana_deposited

C15_WitnessPayload ==
  /\ last.data = <<0, 1>> /\ last.type = "Deposit" /\ IsOk(result)

\* C16: in every reachable state that is not yet paid out by an Exchange or
\* a Refund, a true deposited flag implies that the escrow holds that
\* party's amount.
C16_FlagImpliesEscrowHolds ==
  (~contract.exchange_completed /\ ~refunded)
  => (/\ contract.solana_deposited
           => balances.native[EscrowNative] >= contract.solana_amount
      /\ contract.stablecoin_deposited
           => balances.stable[EscrowStable] >= contract.price)

\* the rejection the specification calls Unauthorized, for an Exchange
UnauthorizedExchange(r) ==
  /\ r.err = "InvalidAccountData"
  /\ r.at = "handle_exchange"
  /\ r.msg = "Exchange failed: Invalid accounts"

\* C17: an Exchange whose first two accounts are not exactly (seller_pubkey,
\* buyer_pubkey) is rejected before any transfer is invoked and without
\* setting exchange_completed; with both deposited flags true the rejection
\* is the account check's.
C17_ExchangeByOthersRejected ==
  [][(/\ last'.type = "Exchange"
      /\ last'.parties # <<contract.seller_pubkey, contract.buyer_pubkey>>)
     => (/\ ~IsOk(result')
         /\ invoked' = <<>>
         /\ RecordAndBalancesUnchanged
         /\ (contract.solana_deposited /\ contract.stablecoin_deposited)
              => UnauthorizedExchange(result'))]_vars

C17_Witness ==
  /\ last.type = "Exchange" /\ UnauthorizedExchange(result)
  /\ last.parties = <<contract.buyer_pubkey, contract.buyer_pubkey>>
  /\ contract.solana_deposited /\ contract.stablecoin_deposited
  /\ ~contract.exchange_completed
  /\ balances.native[EscrowNative] >= contract.solana_amount
  /\ balances.stable[EscrowStable] >= contract.price

\* a Refund, and an Exchange, submitted with the expected accounts, whose
\* transfers the token program accepts, and which returns Ok
RefundSettles ==
  \E data \in Decoded("Refund") :
    Submit(data, NoAccounts, 0, FALSE, TRUE, TRUE) /\ IsOk(result')

ExchangeSettles ==
  \E data \in Decoded("Exchange") :
    Submit(data, NoAccounts, 0, FALSE, TRUE, TRUE) /\ IsOk(result')

\* the clock keeps advancing, and a Refund or an Exchange that can settle
\* again and again is eventually submitted and settles
FairSpec ==
  /\ Spec
  /\ WF_vars(Tick)
  /\ SF_vars(RefundSettles)
  /\ SF_vars(ExchangeSettles)

\* Exchanged or Refunded
Terminal == contract.exchange_completed \/ refunded

\* C18: under fairness, every record in which at least one party has
\* deposited (and the escrow holds the deposits) eventually reaches a
\* terminal state, Exchanged or Refunded.
C18_DepositedLeadsToTerminal ==
  (/\ contract.solana_deposited \/ contract.stablecoin_deposited
   /\ EscrowMatchesFlags)
  ~> Terminal

\* what has left the escrow holdings, per asset: the parties start with
\* nothing of their own
PaidOut(asset) ==
  balances[asset][Seller] + balances[asset][Buyer] + balances[asset][Stranger]

\* C19: for each asset the amount paid out of the escrow never exceeds the
\* amount deposited under the record, and no holding is negative.
C19_PaidOutWithinDeposited ==
  /\ PaidOut("native") <=
       (IF contract.solana_deposited THEN contract.solana_amount ELSE 0)
  /\ PaidOut("stable") <=
       (IF contract.stablecoin_deposited THEN contract.price ELSE 0)
  /\ \A a \in Pubkeys : balances.native[a] >= 0 /\ balances.stable[a] >= 0

====
